---- MODULE Spec2Model ----
(***************************************************************************)
(* Model of the faucet server (src/server.ts): the start-up registry of    *)
(* chains and ERC20 tokens, and the three POST handlers /sendToken,        *)
(* /claimToken and /batchClaimToken with the middleware installed ahead of *)
(* them.                                                                   *)
(***************************************************************************)
EXTENDS Integers, Sequences, FiniteSets, TLC

(***************************************************************************)
(* JavaScript values.  Every value is a record of the same shape so that   *)
(* values of different JavaScript types can be compared.                   *)
(***************************************************************************)
Undef == [t |-> "undefined", n |-> 0, s |-> ""]
Null == [t |-> "null", n |-> 0, s |-> ""]
Num(k) == [t |-> "number", n |-> k, s |-> ""]
Str(x) == [t |-> "string", n |-> 0, s |-> x]
Bool(b) == [t |-> "boolean", n |-> IF b THEN 1 ELSE 0, s |-> ""]

\* JavaScript truthiness (the ! and && operators).
Truthy(v) ==
    CASE v.t = "undefined" -> FALSE
      [] v.t = "null" -> FALSE
      [] v.t = "number" -> v.n # 0
      [] v.t = "string" -> v.s # ""
      [] v.t = "boolean" -> v.n = 1

\* The ?? operator: the left operand unless it is null or undefined.
Nullish(v) == v.t \in {"undefined", "null"}
Coalesce(v, d) == IF Nullish(v) THEN d ELSE v

(***************************************************************************)
(* Configuration objects (config.json): a function from the keys to their  *)
(* values, Undef standing for a key the object does not have.              *)
(***************************************************************************)
ConfigKeys == {"ID", "HOSTID", "NAME", "DRIP_AMOUNT", "COUPON_REQUIRED",
               "MAINNET_BALANCE_CHECK_ENABLED"}

\* Object.keys(obj || {})
ObjectKeys(obj) == {k \in ConfigKeys : obj[k] # Undef}

NoObject == [k \in ConfigKeys |-> Undef]

separateConfigFields == {"COUPON_REQUIRED", "MAINNET_BALANCE_CHECK_ENABLED"}

\* The == of getChainByID on identifiers: equal values, or both null/undefined.
LooseEq(a, b) == (Nullish(a) /\ Nullish(b)) \/ a = b

(***************************************************************************)
(* Bounds of the model.                                                    *)
(***************************************************************************)
\* Request amounts range over -1 .. MaxAmount (and a missing amount).
MaxAmount == 1

(***************************************************************************)
(* The state.                                                              *)
(***************************************************************************)
VARIABLES
    evmchains,      \* config.json evmchains: a sequence of chain configurations
    erc20tokens,    \* config.json erc20tokens: a sequence of token configurations
    staticTokens,   \* erc20tokens as config.json gives it, before start-up
    couponConfig,   \* config.json couponConfig: [IS_ENABLED |-> BOOLEAN]
    env,            \* process.env: [NEO_COUPON_ID |-> a string or Undef]
    evms,           \* the Map chain ID -> [config, contracts]
    boot,           \* start-up position: [stage, i]
    req,            \* the request being served: [path, body, passed]
    pc,             \* position of the request in the middleware and its handler
    pipelineValidity, \* /sendToken: the PipelineCheckValidity object
    gates,          \* /sendToken: [coupon, mainnet] the two ...CheckEnabled constants
    cbData,         \* /sendToken: the data the transfer callback was given
    legs,           \* /batchClaimToken: state of the two transfer promises
    calls,          \* calls made to the collaborators for this request, in order
    res             \* responses sent for this request, in order

vars == <<evmchains, erc20tokens, staticTokens, couponConfig, env, evms, boot, req, pc,
          pipelineValidity, gates, cbData, legs, calls, res>>

configVars == <<evmchains, staticTokens, couponConfig, env>>
requestVars == <<req, pc, pipelineValidity, gates, cbData, legs, calls, res>>

(***************************************************************************)
(* Registry: lines 72-118.                                                 *)
(***************************************************************************)
\* getChainByID: the last chain of the array whose ID == id, else undefined
\* (NoObject stands for undefined: populateConfig reads it as parent || {}).
RECURSIVE getChainByIDFrom(_, _, _, _)
getChainByIDFrom(chains, id, k, reply) ==
    IF k > Len(chains) THEN reply
    ELSE getChainByIDFrom(chains, id, k + 1,
                          IF LooseEq(chains[k]["ID"], id) THEN chains[k] ELSE reply)

getChainByID(chains, id) == getChainByIDFrom(chains, id, 1, NoObject)

\* Line 91 with the test of separateConfigFields inverted.
CopiesOnlySeparateKeys(child, key) ==
    key \in separateConfigFields /\ ~Truthy(child[key])

\* Line 91 without its test of separateConfigFields.
CopiesAnyFalsyKey(child, key) == ~Truthy(child[key])

\* The condition of line 91 under which a parent's key is copied to the child.
CopiesKey(child, key) ==
    key \notin separateConfigFields /\ ~Truthy(child[key])

\* populateConfig: the missing keys of the child taken from the parent.
populateConfig(child, parent) ==
    [key \in ConfigKeys |->
        IF key \in ObjectKeys(parent) /\ CopiesKey(child, key)
        THEN parent[key] ELSE child[key]]

\* Lines 110-112: the token after its optional population from the host chain.
PopulatedToken(chains, token) ==
    IF Truthy(token["HOSTID"])
    THEN populateConfig(token, getChainByID(chains, token["HOSTID"]))
    ELSE token

\* Line 115: evms.get(getChainByID(evmchains, token.HOSTID)?.ID): the key of
\* the host entry, Undef when there is none.
HostKey(chains, map, token) ==
    LET id == getChainByID(chains, token["HOSTID"])["ID"]
    IN IF id.t = "string" /\ id.s \in DOMAIN map THEN id ELSE Undef

\* EVM.addERC20Contract(token): the token enters the instance's contract table
\* under its ID.
addERC20Contract(entry, token) ==
    [entry EXCEPT !.contracts =
        [k \in (DOMAIN entry.contracts) \cup {token["ID"].s} |->
            IF k = token["ID"].s THEN [config |-> token] ELSE entry.contracts[k]]]

\* Line 117 as evm.instance.addERC20Contract(token): a missing host throws.
CallOnMissingHostThrows(hostKey) == hostKey = Undef

\* Line 117, evm?.instance.addERC20Contract(token): the optional chaining skips
\* the call when there is no host entry.
CallOnHostThrows(hostKey) == FALSE

NoContracts == [k \in {} |-> NoObject]

\* Lines 99-106, one iteration: an EVM instance for the chain, keyed by its ID.
SetupChain ==
    /\ boot.stage = "chains"
    /\ boot.i <= Len(evmchains)
    /\ LET chain == evmchains[boot.i]
       IN evms' = [k \in (DOMAIN evms) \cup {chain["ID"].s} |->
                      IF k = chain["ID"].s
                      THEN [config |-> chain, contracts |-> NoContracts]
                      ELSE evms[k]]
    /\ boot' = IF boot.i = Len(evmchains)
               THEN [stage |-> "tokens", i |-> 1]
               ELSE [boot EXCEPT !.i = boot.i + 1]
    /\ UNCHANGED <<configVars, erc20tokens, requestVars>>

\* Lines 109-118, one iteration: the token is populated from its host chain,
\* stored back and added to the host's EVM instance.
RegisterToken ==
    /\ boot.stage = "tokens"
    /\ boot.i <= Len(erc20tokens)
    /\ LET token == PopulatedToken(evmchains, erc20tokens[boot.i])
           hostKey == HostKey(evmchains, evms, token)
       IN /\ erc20tokens' = [erc20tokens EXCEPT ![boot.i] = token]
          /\ IF hostKey = Undef
             THEN /\ evms' = evms
                  /\ boot' = IF CallOnHostThrows(hostKey)
                             THEN [stage |-> "crashed", i |-> boot.i]
                             ELSE IF boot.i = Len(erc20tokens)
                                  THEN [stage |-> "routes", i |-> 1]
                                  ELSE [boot EXCEPT !.i = boot.i + 1]
             ELSE /\ evms' = [evms EXCEPT ![hostKey.s] = addERC20Contract(@, token)]
                  /\ boot' = IF boot.i = Len(erc20tokens)
                             THEN [stage |-> "routes", i |-> 1]
                             ELSE [boot EXCEPT !.i = boot.i + 1]
    /\ UNCHANGED <<configVars, requestVars>>

\* Lines 342-366: the router is mounted and the server listens.
Listen ==
    /\ boot.stage = "routes"
    /\ boot' = [stage |-> "listening", i |-> 1]
    /\ UNCHANGED <<configVars, erc20tokens, evms, requestVars>>

(***************************************************************************)
(* Requests, collaborator calls and responses.                             *)
(***************************************************************************)
BodyKeys == {"address", "chain", "erc20", "couponId", "coupon", "amount",
             "kiteAmount", "erc20Amount"}

Paths == {"/sendToken", "/claimToken", "/batchClaimToken"}

Addresses == {Str("0xA11CE")}
ChainVals == {Undef, Str("KITE"), Str("FUJI")}
Erc20Vals == {Undef, Str(""), Str("USDT"), Str("WAVAX")}
CouponIdVals == {Undef, Str(""), Str("CPN")}
CouponVals == {Undef, Str("CPN"), Str("SECRET")}
AmountVals == {Undef} \cup {Num(k) : k \in -1 .. MaxAmount}

\* The keys each endpoint reads from the body; the others are absent.
Bodies(path) ==
    CASE path = "/sendToken" ->
           {[address |-> a, chain |-> c, erc20 |-> e, couponId |-> k,
             coupon |-> Undef, amount |-> Undef, kiteAmount |-> Undef,
             erc20Amount |-> Undef] :
                a \in Addresses, c \in ChainVals, e \in Erc20Vals, k \in CouponIdVals}
      [] path = "/claimToken" ->
           {[address |-> a, chain |-> c, erc20 |-> e, couponId |-> Undef,
             coupon |-> k, amount |-> m, kiteAmount |-> Undef,
             erc20Amount |-> Undef] :
                a \in Addresses, c \in ChainVals, e \in Erc20Vals, k \in CouponVals,
                m \in AmountVals}
      [] path = "/batchClaimToken" ->
           {[address |-> a, chain |-> c, erc20 |-> e, couponId |-> Undef,
             coupon |-> k, amount |-> Undef, kiteAmount |-> m,
             erc20Amount |-> n] :
                a \in Addresses, c \in ChainVals, e \in Erc20Vals, k \in CouponVals,
                m \in AmountVals, n \in AmountVals}

\* passed: the middleware that called next() for the request.
NoRequest == [path |-> "", body |-> [k \in BodyKeys |-> Undef], passed |-> {}]

\* A call to a collaborator: op is the function called.
Call(op, address, asset, amount, coupon, threw) ==
    [op |-> op, address |-> address, asset |-> asset, amount |-> amount,
     coupon |-> coupon, threw |-> threw]

\* The data a transfer callback is given: SendTokenResponse {status, message, txHash?}.
TxHashes == {Undef, Str("0xHASH")}
CallbackData == [status : {200, 400}, message : {"collaborator message"},
                 txHash : TxHashes]
NoData == [status |-> 0, message |-> "", txHash |-> Undef]

\* A response: res.status(status).send(...).  by names the sender; data is the
\* batch payload {nativeTxHash, erc20TxHash} when hasData.
Response(by, status, message, txHash, hasData, nativeTxHash, erc20TxHash) ==
    [by |-> by, status |-> status, message |-> message, txHash |-> txHash,
     hasData |-> hasData, nativeTxHash |-> nativeTxHash,
     erc20TxHash |-> erc20TxHash]

Plain(by, status, message) == Response(by, status, message, Undef, FALSE, Undef, Undef)

NoValidity == [isValid |-> FALSE, dripAmount |-> Undef, checkPassedType |-> "NONE",
               errorMessage |-> ""]
NoGates == [coupon |-> FALSE, mainnet |-> FALSE]
NoLeg == [st |-> "none", data |-> NoData]
NoLegs == [native |-> NoLeg, erc20 |-> NoLeg]

(***************************************************************************)
(* Middleware ahead of the handlers: lines 40-70, 121 and 342.             *)
(***************************************************************************)
\* The stack with the router mounted ahead of two of the limiters.
AppStackRouterEarly == <<"GLOBAL_RL", "ROUTER", "RESOURCE_RL", "ADDRESS_RL">>

\* The app-level stack in installation order: the three rate limiters of
\* lines 48, 50 and 56, then the router mounted at line 342.
AppStack == <<"GLOBAL_RL", "RESOURCE_RL", "ADDRESS_RL", "ROUTER">>

Limiters == {"GLOBAL_RL", "RESOURCE_RL", "ADDRESS_RL"}

\* The route-level stack: captcha.middleware guards /sendToken only (line 121).
RouteStack(path) ==
    IF path = "/sendToken" THEN <<"CAPTCHA", "HANDLER">> ELSE <<"HANDLER">>

IndexIn(stack, name) == CHOOSE k \in 1 .. Len(stack) : stack[k] = name

\* Where next() of the app-level middleware name leads for a request to path.
NextOf(name, path) ==
    LET after == AppStack[IndexIn(AppStack, name) + 1]
    IN IF after = "ROUTER" THEN RouteStack(path)[1] ELSE after

\* A limiter that rejects answers itself and does not call next().
LimiterCallsNext(rejects) == ~rejects

\* A request arrives and enters the stack (cors, parseURI and parseBody pass it
\* on).  Its body is recorded in req when the handler reads it; what the
\* limiters and the captcha read of it is part of their verdict.
Arrive ==
    /\ boot.stage = "listening"
    /\ pc = "IDLE"
    /\ \E path \in Paths : req' = [NoRequest EXCEPT !.path = path]
    /\ pc' = AppStack[1]
    /\ UNCHANGED <<configVars, erc20tokens, evms, boot, pipelineValidity, gates,
                   cbData, legs, calls, res>>

\* One rate limiter: it lets the request through or rejects it with 429.
RateLimit ==
    /\ pc \in Limiters
    /\ \E rejects \in BOOLEAN :
          /\ res' = IF rejects
                    THEN Append(res, Plain(pc, 429, "Too many requests"))
                    ELSE res
          /\ pc' = IF LimiterCallsNext(rejects) THEN NextOf(pc, req.path) ELSE "DONE"
          /\ req' = IF LimiterCallsNext(rejects)
                    THEN [req EXCEPT !.passed = @ \cup {pc}]
                    ELSE req
    /\ UNCHANGED <<configVars, erc20tokens, evms, boot, pipelineValidity,
                   gates, cbData, legs, calls>>

\* captcha.middleware: it lets the request through or rejects it.
Captcha ==
    /\ pc = "CAPTCHA"
    /\ \E passes \in BOOLEAN :
          IF passes
          THEN /\ pc' = "HANDLER"
               /\ res' = res
               /\ req' = [req EXCEPT !.passed = @ \cup {"CAPTCHA"}]
          ELSE /\ pc' = "DONE"
               /\ res' = Append(res, Plain("CAPTCHA", 400, "Captcha verification failed"))
               /\ req' = req
    /\ UNCHANGED <<configVars, erc20tokens, evms, boot, pipelineValidity,
                   gates, cbData, legs, calls>>

(***************************************************************************)
(* Look-ups shared by the three handlers (lines 128-135, 213-220, 248-255).*)
(***************************************************************************)
\* evms.get(chain) !== undefined
HasEvm(chain) == chain.t = "string" /\ chain.s \in DOMAIN evms

\* evm?.instance?.contracts?.get(erc20 ?? "") !== undefined
HasContract(chain, erc20) ==
    /\ HasEvm(chain)
    /\ Coalesce(erc20, Str("")).s \in DOMAIN evms[chain.s].contracts

\* erc20Instance?.config, NoObject when there is no erc20Instance
Erc20Config(chain, erc20) ==
    IF HasContract(chain, erc20)
    THEN evms[chain.s].contracts[Coalesce(erc20, Str("")).s].config
    ELSE NoObject

\* The validation without its erc20Instance disjunct.
UnknownChainOnly(chain, erc20) == ~HasEvm(chain)

\* evm === undefined || (erc20 && erc20Instance === undefined)
InvalidParameters(chain, erc20) ==
    ~HasEvm(chain) \/ (Truthy(erc20) /\ ~HasContract(chain, erc20))

(***************************************************************************)
(* POST /sendToken: lines 121-192.                                         *)
(***************************************************************************)
\* Line 138
FaucetConfigId(chain, erc20) ==
    Coalesce(Erc20Config(chain, erc20)["ID"], evms[chain.s].config["ID"])

\* Line 141 reading the chain's amount whatever the asset.
DripAmountOfChain(chain, erc20) == evms[chain.s].config["DRIP_AMOUNT"]

\* Line 141
DripAmount(chain, erc20) ==
    Coalesce(Erc20Config(chain, erc20)["DRIP_AMOUNT"],
             evms[chain.s].config["DRIP_AMOUNT"])

\* Lines 150-151 reading the chain's flag whatever the asset.
FlagOfHostChain(chain, erc20, key) ==
    Coalesce(evms[chain.s].config[key], Bool(FALSE))

\* Lines 150-151: the configuration the two flags are read from is the
\* token's when there is an erc20Instance, the chain's otherwise.
FlagOf(chain, erc20, key) ==
    Coalesce(IF HasContract(chain, erc20)
             THEN Erc20Config(chain, erc20)[key]
             ELSE evms[chain.s].config[key],
             Bool(FALSE))

MainnetCheckEnabled(chain, erc20) ==
    Truthy(FlagOf(chain, erc20, "MAINNET_BALANCE_CHECK_ENABLED"))

CouponCheckEnabled(chain, erc20) ==
    couponConfig.IS_ENABLED /\ Truthy(FlagOf(chain, erc20, "COUPON_REQUIRED"))

\* Line 154: the guard in front of checkCouponPipeline
RunsCouponCheck(g, pv) == ~pv.isValid /\ g.coupon

\* Line 157 without its !coupon conjunct.
RunsMainnetCheckIgnoringCoupon(g, pv, coupon) == ~pv.isValid /\ g.mainnet

\* Line 157: the guard in front of checkMainnetBalancePipeline
RunsMainnetCheck(g, pv, coupon) == ~pv.isValid /\ ~Truthy(coupon) /\ g.mainnet

\* Lines 159-162 requiring both gates instead of either.
PipelineRejectsWhenBoth(g, pv) == (g.mainnet /\ g.coupon) /\ ~pv.isValid

\* Lines 159-162: the pipeline rejects the request
PipelineRejects(g, pv) == (g.mainnet \/ g.coupon) /\ ~pv.isValid

\* Line 187 without its txHash === undefined conjunct.
ReclaimsCouponAlways(pv, coupon, data) ==
    pv.checkPassedType = "COUPON" /\ Truthy(coupon)

\* Line 187: the transfer callback reclaims the coupon
ReclaimsCoupon(pv, coupon, data) ==
    pv.checkPassedType = "COUPON" /\ Truthy(coupon) /\ data.txHash = Undef

\* Line 188: the amount handed to reclaimCouponAmount
ReclaimAmount(pv) == pv.dripAmount

\* checkCouponPipeline: the results it may leave in pipelineValidity.  Only a
\* supplied coupon can be valid; a valid coupon confirms the drip amount or
\* substitutes a capped one.
CouponOutcomes(pv, coupon) ==
    {[pv EXCEPT !.isValid = FALSE, !.errorMessage = "coupon check failed"]}
    \cup
    (IF Truthy(coupon)
     THEN {[pv EXCEPT !.isValid = TRUE, !.checkPassedType = "COUPON",
                      !.dripAmount = a] :
              a \in {pv.dripAmount}
                    \cup (IF pv.dripAmount.t = "number" /\ pv.dripAmount.n > 1
                          THEN {Num(1)} ELSE {})}
     ELSE {})

\* checkMainnetBalancePipeline: the results it may leave in pipelineValidity.
MainnetOutcomes(pv) ==
    {[pv EXCEPT !.isValid = FALSE, !.errorMessage = "mainnet check failed"],
     [pv EXCEPT !.isValid = TRUE, !.checkPassedType = "MAINNET_BALANCE"]}

\* Lines 157-183 from the mainnet guard on, up to the next await or return:
\* the mainnet check is called, or the request is rejected, or the transfer is
\* started.
FromMainnetGuard(body, g, pv, mayCheck) ==
    IF mayCheck /\ RunsMainnetCheck(g, pv, body["couponId"])
    THEN /\ calls' = Append(calls, Call("checkMainnetBalancePipeline",
                                        body["address"], Undef, Undef, Undef, FALSE))
         /\ pc' = "MAINNET_CHECK"
         /\ res' = res
    ELSE IF PipelineRejects(g, pv)
    THEN /\ res' = Append(res, Plain("HANDLER", 400, pv.errorMessage))
         /\ pc' = "DONE"
         /\ calls' = calls
    ELSE /\ calls' = Append(calls, Call("sendToken", body["address"],
                                        body["erc20"], pv.dripAmount, Undef, FALSE))
         /\ pc' = "TRANSFER"
         /\ res' = res

\* Lines 122-154: validation, resolution of the configuration, and the
\* pipeline up to its first await.
SendTokenHandler ==
    /\ pc = "HANDLER" /\ req.path = "/sendToken"
    /\ \E body \in Bodies(req.path) :
       /\ req' = [req EXCEPT !.body = body]
       /\ LET chain == body["chain"]
           erc20 == body["erc20"]
          IN IF InvalidParameters(chain, erc20)
          THEN /\ res' = Append(res, Plain("HANDLER", 400, "Invalid parameters passed!"))
               /\ pc' = "DONE"
               /\ UNCHANGED <<pipelineValidity, gates, calls>>
          ELSE LET g == [coupon |-> CouponCheckEnabled(chain, erc20),
                         mainnet |-> MainnetCheckEnabled(chain, erc20)]
                   pv == [NoValidity EXCEPT !.dripAmount = DripAmount(chain, erc20)]
               IN /\ gates' = g
                  /\ pipelineValidity' = pv
                  /\ IF RunsCouponCheck(g, pv)
                     THEN /\ calls' = Append(calls,
                                 Call("checkCouponPipeline", Undef,
                                      FaucetConfigId(chain, erc20), Undef,
                                      body["couponId"], FALSE))
                          /\ pc' = "COUPON_CHECK"
                          /\ res' = res
                     ELSE FromMainnetGuard(body, g, pv, TRUE)
    /\ UNCHANGED <<configVars, erc20tokens, evms, boot, cbData, legs>>

\* checkCouponPipeline settles and the handler goes on from line 157.
CouponCheckReturns ==
    /\ pc = "COUPON_CHECK"
    /\ \E pv \in CouponOutcomes(pipelineValidity, req.body["couponId"]) :
          /\ pipelineValidity' = pv
          /\ FromMainnetGuard(req.body, gates, pv, TRUE)
    /\ UNCHANGED <<configVars, erc20tokens, evms, boot, req, gates, cbData, legs>>

\* checkMainnetBalancePipeline settles and the handler goes on from line 159.
MainnetCheckReturns ==
    /\ pc = "MAINNET_CHECK"
    /\ \E pv \in MainnetOutcomes(pipelineValidity) :
          /\ pipelineValidity' = pv
          /\ FromMainnetGuard(req.body, gates, pv, FALSE)
    /\ UNCHANGED <<configVars, erc20tokens, evms, boot, req, gates, cbData, legs>>

\* Line 188 without its await: line 190 answers as soon as the reclaim is started.
ReclaimNotAwaited(reclaims) == FALSE

\* Line 188: the callback awaits reclaimCouponAmount when it calls it, so that
\* line 190 runs only once the reclaim has settled.
AwaitsReclaim(reclaims) == reclaims

\* Lines 183-191: the collaborator calls the transfer callback with its data.
SendTokenCallback ==
    /\ pc = "TRANSFER" /\ req.path = "/sendToken"
    /\ \E data \in CallbackData :
          LET reclaims == ReclaimsCoupon(pipelineValidity, req.body["couponId"], data)
          IN /\ cbData' = data
             /\ calls' = IF reclaims
                         THEN Append(calls, Call("reclaimCouponAmount", Undef, Undef,
                                                 ReclaimAmount(pipelineValidity),
                                                 req.body["couponId"], FALSE))
                         ELSE calls
             /\ res' = IF AwaitsReclaim(reclaims)
                       THEN res
                       ELSE Append(res, Response("HANDLER", data.status, data.message,
                                                 data.txHash, FALSE, Undef, Undef))
             /\ pc' = IF reclaims THEN "RECLAIM" ELSE "DONE"
    /\ UNCHANGED <<configVars, erc20tokens, evms, boot, req, pipelineValidity,
                   gates, legs>>

\* Lines 188-190: reclaimCouponAmount settles.  When it resolves the response
\* of line 190 is sent; when it rejects the await throws and the callback ends.
ReclaimSettles ==
    /\ pc = "RECLAIM"
    /\ \E resolves \in BOOLEAN :
          IF resolves
          THEN /\ res' = IF AwaitsReclaim(TRUE)
                         THEN Append(res, Response("HANDLER", cbData.status,
                                                   cbData.message, cbData.txHash,
                                                   FALSE, Undef, Undef))
                         ELSE res
               /\ pc' = "DONE"
          ELSE /\ res' = res
               /\ pc' = "UNHANDLED"
    /\ UNCHANGED <<configVars, erc20tokens, evms, boot, req, pipelineValidity,
                   gates, cbData, legs, calls>>

(***************************************************************************)
(* POST /claimToken: lines 195-226.                                        *)
(***************************************************************************)
\* Lines 202 and 237: !amount || amount <= 0
InvalidAmount(amount) ==
    ~Truthy(amount) \/ (amount.t = "number" /\ amount.n <= 0)

\* Lines 207 and 242: coupon !== process.env.NEO_COUPON_ID
InvalidCoupon(coupon) == coupon # env.NEO_COUPON_ID

ClaimTokenHandler ==
    /\ pc = "HANDLER" /\ req.path = "/claimToken"
    /\ \E body \in Bodies(req.path) :
       /\ req' = [req EXCEPT !.body = body]
       /\ LET chain == body["chain"]
           erc20 == body["erc20"]
           dripAmount == body["amount"]
          IN IF InvalidAmount(dripAmount)
          THEN /\ res' = Append(res, Plain("HANDLER", 400, "Invalid amount passed!"))
               /\ pc' = "DONE"
               /\ calls' = calls
          ELSE IF InvalidCoupon(body["coupon"])
          THEN /\ res' = Append(res, Plain("HANDLER", 400, "Invalid coupon passed!"))
               /\ pc' = "DONE"
               /\ calls' = calls
          ELSE IF InvalidParameters(chain, erc20)
          THEN /\ res' = Append(res, Plain("HANDLER", 400, "Invalid parameters passed!"))
               /\ pc' = "DONE"
               /\ calls' = calls
          ELSE /\ calls' = Append(calls, Call("sendToken", body["address"], erc20,
                                              dripAmount, Undef, FALSE))
               /\ pc' = "TRANSFER"
               /\ res' = res
    /\ UNCHANGED <<configVars, erc20tokens, evms, boot, pipelineValidity,
                   gates, cbData, legs>>

\* Lines 222-225: the transfer callback answers with the collaborator's data.
ClaimTokenCallback ==
    /\ pc = "TRANSFER" /\ req.path = "/claimToken"
    /\ \E data \in CallbackData :
          /\ cbData' = data
          /\ res' = Append(res, Response("HANDLER", data.status, data.message,
                                         data.txHash, FALSE, Undef, Undef))
    /\ pc' = "DONE"
    /\ UNCHANGED <<configVars, erc20tokens, evms, boot, req, pipelineValidity,
                   gates, legs, calls>>

(***************************************************************************)
(* POST /batchClaimToken: lines 229-292.                                   *)
(***************************************************************************)
\* Line 231 and line 233: the defaults of chain and erc20
BatchChain(body) == Coalesce(body["chain"], Str("KITE"))
BatchErc20(body) == Coalesce(body["erc20"], Str("USDT"))

\* Lines 257-277: a transfer promise after its executor ran: rejected when
\* sendToken threw, pending otherwise.
StartedLeg(threw) == [st |-> IF threw THEN "rejected" ELSE "pending", data |-> NoData]

\* Lines 257-277 with one try block around both calls: a throw of the native
\* call skips the erc20 call.
Erc20LegSkippedOnThrow(nativeThrows) == ~nativeThrows

\* Lines 257-277: each call sits in its own try/catch inside its own executor,
\* so the erc20 call is made whatever the native call did.
Erc20LegStarts(nativeThrows) == TRUE

\* Lines 280-288 with a partial success answered 200.
BatchResponseLenient(nativeTransfer, erc20Transfer) ==
    IF nativeTransfer.status = 200 /\ erc20Transfer.status = 200
    THEN Response("HANDLER", 200, "Tokens sent successfully", Undef, TRUE,
                  nativeTransfer.txHash, erc20Transfer.txHash)
    ELSE IF nativeTransfer.status = 200
    THEN Response("HANDLER", 200, "Native token sent successfully", Undef, TRUE,
                  nativeTransfer.txHash, Null)
    ELSE IF erc20Transfer.status = 200
    THEN Response("HANDLER", 200, "ERC20 token sent successfully", Undef, TRUE,
                  Null, erc20Transfer.txHash)
    ELSE Plain("HANDLER", 400, "Failed to send tokens")

\* Lines 280-288: the response built from the two resolved transfers.
BatchResponse(nativeTransfer, erc20Transfer) ==
    IF nativeTransfer.status = 200 /\ erc20Transfer.status = 200
    THEN Response("HANDLER", 200, "Tokens sent successfully", Undef, TRUE,
                  nativeTransfer.txHash, erc20Transfer.txHash)
    ELSE IF nativeTransfer.status = 200
    THEN Response("HANDLER", 400, "Native token sent successfully", Undef, TRUE,
                  nativeTransfer.txHash, Null)
    ELSE IF erc20Transfer.status = 200
    THEN Response("HANDLER", 400, "ERC20 token sent successfully", Undef, TRUE,
                  Null, erc20Transfer.txHash)
    ELSE Plain("HANDLER", 400, "Failed to send tokens")

\* Promise.all of line 279: fulfilled when both promises are, rejected as soon
\* as one of them is.
AllFulfilled(l) == l.native.st = "resolved" /\ l.erc20.st = "resolved"
AllRejected(l) == l.native.st = "rejected" \/ l.erc20.st = "rejected"

\* Lines 230-277: validation, then both transfers are started one after the
\* other in the same turn.
BatchClaimTokenHandler ==
    /\ pc = "HANDLER" /\ req.path = "/batchClaimToken"
    /\ \E body \in Bodies(req.path) :
       /\ req' = [req EXCEPT !.body = body]
       /\ LET chain == BatchChain(body)
           erc20 == BatchErc20(body)
           kiteAmount == body["kiteAmount"]
           erc20Amount == body["erc20Amount"]
          IN IF InvalidAmount(kiteAmount)
          THEN /\ res' = Append(res, Plain("HANDLER", 400, "Invalid amount passed!"))
               /\ pc' = "DONE"
               /\ UNCHANGED <<calls, legs>>
          ELSE IF InvalidCoupon(body["coupon"])
          THEN /\ res' = Append(res, Plain("HANDLER", 400, "Invalid coupon passed!"))
               /\ pc' = "DONE"
               /\ UNCHANGED <<calls, legs>>
          ELSE IF InvalidParameters(chain, erc20)
          THEN /\ res' = Append(res, Plain("HANDLER", 400, "Invalid parameters passed!"))
               /\ pc' = "DONE"
               /\ UNCHANGED <<calls, legs>>
          ELSE \E nativeThrows \in BOOLEAN, erc20Throws \in BOOLEAN :
                  /\ calls' = calls \o
                        <<Call("sendToken", body["address"], Undef, kiteAmount,
                               Undef, nativeThrows)>> \o
                        (IF Erc20LegStarts(nativeThrows)
                         THEN <<Call("sendToken", body["address"], erc20,
                                     erc20Amount, Undef, erc20Throws)>>
                         ELSE <<>>)
                  /\ legs' = [native |-> StartedLeg(nativeThrows),
                              erc20 |-> IF Erc20LegStarts(nativeThrows)
                                        THEN StartedLeg(erc20Throws) ELSE NoLeg]
                  /\ pc' = "BATCH"
                  /\ res' = res
    /\ UNCHANGED <<configVars, erc20tokens, evms, boot, pipelineValidity,
                   gates, cbData>>

\* Lines 259-262 and 270-273: the collaborator calls a leg's callback, which
\* resolves the leg's promise.
BatchLegCallback ==
    /\ req.path = "/batchClaimToken"
    /\ \E leg \in {"native", "erc20"} : \E data \in CallbackData :
          /\ legs[leg].st = "pending"
          /\ legs' = [legs EXCEPT ![leg] = [st |-> "resolved", data |-> data]]
    /\ UNCHANGED <<configVars, erc20tokens, evms, boot, req, pc, pipelineValidity,
                   gates, cbData, calls, res>>

\* Lines 279-291: Promise.all settles and the response is sent.
BatchRespond ==
    /\ pc = "BATCH"
    /\ \/ /\ AllRejected(legs)
          /\ res' = Append(res, Plain("HANDLER", 400, "err.message"))
       \/ /\ ~AllRejected(legs)
          /\ AllFulfilled(legs)
          /\ res' = Append(res, BatchResponse(legs.native.data, legs.erc20.data))
    /\ pc' = "DONE"
    /\ UNCHANGED <<configVars, erc20tokens, evms, boot, req, pipelineValidity,
                   gates, cbData, legs, calls>>

\* The request is over: the server takes up the next one.  One request is
\* followed at a time.
Finish ==
    /\ pc \in {"DONE", "UNHANDLED"}
    /\ legs.native.st # "pending" /\ legs.erc20.st # "pending"
    /\ req' = NoRequest
    /\ pc' = "IDLE"
    /\ pipelineValidity' = NoValidity
    /\ gates' = NoGates
    /\ cbData' = NoData
    /\ legs' = NoLegs
    /\ calls' = <<>>
    /\ res' = <<>>
    /\ UNCHANGED <<configVars, erc20tokens, evms, boot>>

(***************************************************************************)
(* Initial states and specification.                                       *)
(***************************************************************************)
Config(id, hostid, name, drip, couponRequired, mainnetCheck) ==
    [k \in ConfigKeys |->
        CASE k = "ID" -> id
          [] k = "HOSTID" -> hostid
          [] k = "NAME" -> name
          [] k = "DRIP_AMOUNT" -> drip
          [] k = "COUPON_REQUIRED" -> couponRequired
          [] k = "MAINNET_BALANCE_CHECK_ENABLED" -> mainnetCheck]

Flags == {Undef, Bool(TRUE)}

\* evmchains: KITE with any setting of its two flags, and FUJI without gates.
ChainArrays ==
    {<<Config(Str("KITE"), Undef, Str("Kite"), Num(2), cr, mb),
       Config(Str("FUJI"), Undef, Str("Fuji"), Num(1), Undef, Undef)>> :
          cr \in Flags, mb \in Flags}

\* erc20tokens: WAVAX with its own name and drip amount, whose HOSTID is
\* missing, unresolved or FUJI, and USDT on KITE with any setting of its two
\* flags and neither a name nor a drip amount of its own.
TokenArrays ==
    {<<Config(Str("WAVAX"), host, Str("Wrapped"), Num(3), Undef, Undef),
       Config(Str("USDT"), Str("KITE"), Undef, Undef, cr, mb)>> :
          host \in {Undef, Str("NOPE"), Str("FUJI")},
          cr \in Flags, mb \in Flags}

Init ==
    /\ evmchains \in ChainArrays
    /\ erc20tokens \in TokenArrays
    /\ staticTokens = erc20tokens
    /\ couponConfig \in [IS_ENABLED : BOOLEAN]
    /\ env \in [NEO_COUPON_ID : {Undef, Str("SECRET")}]
    /\ evms = [k \in {} |-> [config |-> NoObject, contracts |-> NoContracts]]
    /\ boot = [stage |-> "chains", i |-> 1]
    /\ req = NoRequest
    /\ pc = "IDLE"
    /\ pipelineValidity = NoValidity
    /\ gates = NoGates
    /\ cbData = NoData
    /\ legs = NoLegs
    /\ calls = <<>>
    /\ res = <<>>

Next ==
    \/ SetupChain
    \/ RegisterToken
    \/ Listen
    \/ Arrive
    \/ RateLimit
    \/ Captcha
    \/ SendTokenHandler
    \/ CouponCheckReturns
    \/ MainnetCheckReturns
    \/ SendTokenCallback
    \/ ReclaimSettles
    \/ ClaimTokenHandler
    \/ ClaimTokenCallback
    \/ BatchClaimTokenHandler
    \/ BatchLegCallback
    \/ BatchRespond
    \/ Finish

Spec == Init /\ [][Next]_vars

(***************************************************************************)
(* Start-up alone (lines 99-118 and 342-366) over a wider range of         *)
(* config.json: flags that are absent, false or true, and a token whose    *)
(* name and drip amount are absent, set to a falsy value ("" and 0) or set *)
(* to a truthy one.                                                        *)
(***************************************************************************)
WideFlags == {Undef, Bool(FALSE), Bool(TRUE)}

StartupChains ==
    {<<Config(Str("KITE"), Undef, Str("Kite"), Num(2), cr, mb),
       Config(Str("FUJI"), Undef, Str("Fuji"), Num(1), Undef, Undef)>> :
          cr \in WideFlags, mb \in WideFlags}

StartupTokens ==
    {<<Config(Str("WAVAX"), host, Str("Wrapped"), Num(3), Undef, Undef),
       Config(Str("USDT"), Str("KITE"), name, drip, cr, mb)>> :
          host \in {Undef, Str("NOPE"), Str("FUJI")},
          name \in {Undef, Str(""), Str("Tether")},
          drip \in {Undef, Num(0), Num(5)},
          cr \in WideFlags, mb \in WideFlags}

StartupInit ==
    /\ evmchains \in StartupChains
    /\ erc20tokens \in StartupTokens
    /\ staticTokens = erc20tokens
    /\ couponConfig = [IS_ENABLED |-> TRUE]
    /\ env = [NEO_COUPON_ID |-> Undef]
    /\ evms = [k \in {} |-> [config |-> NoObject, contracts |-> NoContracts]]
    /\ boot = [stage |-> "chains", i |-> 1]
    /\ req = NoRequest
    /\ pc = "IDLE"
    /\ pipelineValidity = NoValidity
    /\ gates = NoGates
    /\ cbData = NoData
    /\ legs = NoLegs
    /\ calls = <<>>
    /\ res = <<>>

StartupNext ==
    \/ SetupChain
    \/ RegisterToken
    \/ Listen

StartupSpec == StartupInit /\ [][StartupNext]_vars

(***************************************************************************)
(* Vocabulary of the properties.                                           *)
(***************************************************************************)
CallsOf(op) == SelectSeq(calls, LAMBDA c : c.op = op)

Called(op) == Len(CallsOf(op)) > 0

\* The handler of the request has run (the middleware let the request through).
Handled ==
    \/ pc \in {"COUPON_CHECK", "MAINNET_CHECK", "TRANSFER", "RECLAIM", "BATCH",
               "UNHANDLED"}
    \/ pc = "DONE" /\ res # <<>> /\ res[1].by = "HANDLER"

\* The request is answered, once, by its handler with the given status.
AnsweredByHandler(status) ==
    /\ Len(res) = 1
    /\ res[1].by = "HANDLER"
    /\ res[1].status = status

\* /sendToken has got past its pipeline: the request was rejected by it or the
\* transfer was started.
PipelineDecided ==
    /\ req.path = "/sendToken"
    /\ Handled
    /\ pc \notin {"COUPON_CHECK", "MAINNET_CHECK"}
    /\ ~(Len(res) = 1 /\ res[1].message = "Invalid parameters passed!")

(***************************************************************************)
(* C1.  In POST /sendToken, a request whose body carries a non-empty       *)
(* couponId never has checkMainnetBalancePipeline invoked for it, whatever *)
(* the outcome of the coupon check and whichever gates are enabled.        *)
(***************************************************************************)
C1_CouponSkipsMainnet ==
    (req.path = "/sendToken" /\ Truthy(req.body["couponId"]))
        => ~Called("checkMainnetBalancePipeline")

\* A supplied coupon failed the coupon check with the mainnet gate enabled, and
\* the request was rejected.
C1_Witness ==
    /\ req.path = "/sendToken"
    /\ Truthy(req.body["couponId"])
    /\ gates.coupon /\ gates.mainnet
    /\ Called("checkCouponPipeline")
    /\ ~pipelineValidity.isValid
    /\ pc = "DONE"
    /\ AnsweredByHandler(400)

(***************************************************************************)
(* C2.  In POST /sendToken with valid parameters the pipeline is satisfied *)
(* iff neither gate is enabled or a gate that ran returned valid: the      *)
(* transfer is started exactly when it is satisfied, and when it is not    *)
(* (so a gate is enabled) the request is answered 400 and neither          *)
(* sendToken nor reclaimCouponAmount is invoked.                           *)
(***************************************************************************)
PipelineSatisfied ==
    \/ ~gates.coupon /\ ~gates.mainnet
    \/ pipelineValidity.checkPassedType \in {"COUPON", "MAINNET_BALANCE"}

C2_UnsatisfiedPipelineBlocks ==
    PipelineDecided =>
        /\ PipelineSatisfied <=> Called("sendToken")
        /\ ~PipelineSatisfied =>
              /\ gates.coupon \/ gates.mainnet
              /\ AnsweredByHandler(400)
              /\ pc = "DONE"
              /\ ~Called("sendToken")
              /\ ~Called("reclaimCouponAmount")

\* Only the mainnet gate is enabled, its check ran and failed, and the request
\* was rejected.
C2_Witness ==
    /\ PipelineDecided
    /\ gates.mainnet /\ ~gates.coupon
    /\ Called("checkMainnetBalancePipeline")
    /\ ~PipelineSatisfied
    /\ AnsweredByHandler(400)

(***************************************************************************)
(* C3.  In POST /sendToken, reclaimCouponAmount is invoked iff the passed  *)
(* check is COUPON, a coupon was supplied and the transfer callback        *)
(* carried no txHash; it is then invoked once, with the supplied coupon    *)
(* and the amount that was passed to sendToken.                            *)
(***************************************************************************)
\* The transfer callback of /sendToken has been called.
CallbackRan ==
    /\ req.path = "/sendToken"
    /\ Called("sendToken")
    /\ pc \in {"RECLAIM", "DONE", "UNHANDLED"}

C3_ReclaimCorrect ==
    /\ Called("reclaimCouponAmount") <=>
          /\ CallbackRan
          /\ pipelineValidity.checkPassedType = "COUPON"
          /\ Truthy(req.body["couponId"])
          /\ cbData.txHash = Undef
    /\ Called("reclaimCouponAmount") =>
          /\ Len(CallsOf("reclaimCouponAmount")) = 1
          /\ Len(CallsOf("sendToken")) = 1
          /\ CallsOf("reclaimCouponAmount")[1].coupon = req.body["couponId"]
          /\ CallsOf("reclaimCouponAmount")[1].amount = CallsOf("sendToken")[1].amount

\* A coupon capped the drip amount of KITE to 1, the transfer failed and the
\* capped amount was reclaimed.
C3_Witness ==
    /\ CallbackRan
    /\ Called("reclaimCouponAmount")
    /\ CallsOf("reclaimCouponAmount")[1].amount = Num(1)
    /\ CallsOf("sendToken")[1].amount = Num(1)
    /\ DripAmount(req.body["chain"], req.body["erc20"]) = Num(2)

(***************************************************************************)
(* C4.  In POST /batchClaimToken, when each leg either succeeds (status    *)
(* 200 with a txHash) or fails (another status, no txHash), the response   *)
(* follows the four-row table: both succeed -> 200 with both hashes;       *)
(* only the native leg -> 400 with nativeTxHash and erc20TxHash null; only *)
(* the erc20 leg -> 400 with nativeTxHash null and erc20TxHash; neither -> *)
(* 400 with the generic failure message and no hashes.                     *)
(***************************************************************************)
LegSucceeded(leg) == leg.data.status = 200 /\ leg.data.txHash # Undef
LegFailed(leg) == leg.data.status # 200 /\ leg.data.txHash = Undef

\* Both legs called back with a result that is a success or a failure, and the
\* request was answered.
BatchAnswered ==
    /\ req.path = "/batchClaimToken"
    /\ pc = "DONE"
    /\ AllFulfilled(legs)
    /\ LegSucceeded(legs.native) \/ LegFailed(legs.native)
    /\ LegSucceeded(legs.erc20) \/ LegFailed(legs.erc20)

C4_BatchTable ==
    BatchAnswered =>
        /\ Len(res) = 1
        /\ (LegSucceeded(legs.native) /\ LegSucceeded(legs.erc20)) =>
              /\ res[1].status = 200
              /\ res[1].hasData
              /\ res[1].nativeTxHash = legs.native.data.txHash
              /\ res[1].erc20TxHash = legs.erc20.data.txHash
        /\ (LegSucceeded(legs.native) /\ LegFailed(legs.erc20)) =>
              /\ res[1].status = 400
              /\ res[1].hasData
              /\ res[1].nativeTxHash = legs.native.data.txHash
              /\ res[1].erc20TxHash = Null
        /\ (LegFailed(legs.native) /\ LegSucceeded(legs.erc20)) =>
              /\ res[1].status = 400
              /\ res[1].hasData
              /\ res[1].nativeTxHash = Null
              /\ res[1].erc20TxHash = legs.erc20.data.txHash
        /\ (LegFailed(legs.native) /\ LegFailed(legs.erc20)) =>
              /\ res[1].status = 400
              /\ ~res[1].hasData
              /\ res[1].message = "Failed to send tokens"

\* The native leg succeeded, the erc20 leg failed, and the answer is 400 with
\* the native hash.
C4_Witness ==
    /\ BatchAnswered
    /\ LegSucceeded(legs.native) /\ LegFailed(legs.erc20)
    /\ res[1].status = 400
    /\ res[1].nativeTxHash = Str("0xHASH")
    /\ res[1].erc20TxHash = Null

(***************************************************************************)
(* C5.  A transfer result without a txHash is a failure whatever its       *)
(* status: in POST /batchClaimToken the response status is 200 only if     *)
(* both results carry a txHash, and a leg whose result has no txHash is    *)
(* never reported as the successful leg of a partial outcome.              *)
(***************************************************************************)
C5_NoHashIsFailure ==
    (req.path = "/batchClaimToken" /\ pc = "DONE" /\ AllFulfilled(legs)) =>
        /\ res[1].status = 200 =>
              /\ legs.native.data.txHash # Undef
              /\ legs.erc20.data.txHash # Undef
        /\ res[1].message = "Native token sent successfully" =>
              legs.native.data.txHash # Undef
        /\ res[1].message = "ERC20 token sent successfully" =>
              legs.erc20.data.txHash # Undef

(***************************************************************************)
(* C6.  In POST /sendToken, if neither gate is enabled for the resolved    *)
(* configuration then, for a known chain and (if given) a known token, no  *)
(* eligibility check is invoked, the pipeline does not reject the request, *)
(* and sendToken is invoked exactly once with the configured drip amount   *)
(* (the token's when a token is requested, the chain's otherwise),         *)
(* whether or not a coupon was supplied.                                   *)
(***************************************************************************)
\* The chain is registered and the token, if one is requested, is in its table.
KnownAsset(chain, erc20) ==
    /\ chain.t = "string" /\ chain.s \in DOMAIN evms
    /\ Truthy(erc20) => erc20.s \in DOMAIN evms[chain.s].contracts

\* The configuration a /sendToken request resolves to.
ResolvedConfig(chain, erc20) ==
    IF Truthy(erc20)
    THEN evms[chain.s].contracts[erc20.s].config
    ELSE evms[chain.s].config

CouponGateOn(cfg) == couponConfig.IS_ENABLED /\ cfg["COUPON_REQUIRED"] = Bool(TRUE)
MainnetGateOn(cfg) == cfg["MAINNET_BALANCE_CHECK_ENABLED"] = Bool(TRUE)

\* A handled /sendToken request for a known asset whose configuration enables
\* no gate.
UngatedRequest ==
    /\ req.path = "/sendToken"
    /\ Handled
    /\ KnownAsset(req.body["chain"], req.body["erc20"])
    /\ ~CouponGateOn(ResolvedConfig(req.body["chain"], req.body["erc20"]))
    /\ ~MainnetGateOn(ResolvedConfig(req.body["chain"], req.body["erc20"]))

C6_NoGateAdmits ==
    UngatedRequest =>
        /\ calls = <<Call("sendToken", req.body["address"], req.body["erc20"],
                          ResolvedConfig(req.body["chain"],
                                         req.body["erc20"])["DRIP_AMOUNT"],
                          Undef, FALSE)>>
        /\ pc \in {"TRANSFER", "DONE"}
        /\ pc = "TRANSFER" => res = <<>>
        /\ pc = "DONE" =>
              res = <<Response("HANDLER", cbData.status, cbData.message,
                               cbData.txHash, FALSE, Undef, Undef)>>

\* WAVAX on FUJI is requested with a coupon and no gate is enabled: the transfer
\* is started with WAVAX's drip amount.
C6_Witness ==
    /\ UngatedRequest
    /\ Truthy(req.body["couponId"])
    /\ req.body["erc20"] = Str("WAVAX")
    /\ pc = "TRANSFER"
    /\ calls[1].amount = Num(3)

(***************************************************************************)
(* C7.  For the three POST endpoints: if the chain is not in the registry, *)
(* or a non-empty erc20 names a token not registered on that chain, the    *)
(* request is answered 400 and has no side effects: no coupon check, no    *)
(* mainnet check, no sendToken and no reclaim.                             *)
(***************************************************************************)
\* The chain and the asset the request names (with the defaults of
\* /batchClaimToken).
NamedChain ==
    IF req.path = "/batchClaimToken" /\ req.body["chain"] = Undef
    THEN Str("KITE") ELSE req.body["chain"]

NamedErc20 ==
    IF req.path = "/batchClaimToken" /\ req.body["erc20"] = Undef
    THEN Str("USDT") ELSE req.body["erc20"]

\* What config.json says: the chains, and the tokens hosted on a chain.
ConfiguredChain(chain) ==
    \E j \in 1 .. Len(evmchains) : evmchains[j]["ID"] = chain

ConfiguredTokenOn(chain, erc20) ==
    \E i \in 1 .. Len(staticTokens) :
        /\ staticTokens[i]["ID"] = erc20
        /\ staticTokens[i]["HOSTID"] = chain

UnknownChainOrAsset ==
    \/ ~ConfiguredChain(NamedChain)
    \/ Truthy(NamedErc20) /\ ~ConfiguredTokenOn(NamedChain, NamedErc20)

C7_ValidationErrorIsInert ==
    (Handled /\ UnknownChainOrAsset) =>
        /\ AnsweredByHandler(400)
        /\ pc = "DONE"
        /\ calls = <<>>
        /\ pipelineValidity = NoValidity
        /\ legs = NoLegs

\* /batchClaimToken with a valid amount and coupon names FUJI and, by default,
\* USDT, which FUJI does not host.
C7_Witness ==
    /\ req.path = "/batchClaimToken"
    /\ Handled
    /\ req.body["chain"] = Str("FUJI")
    /\ req.body["erc20"] = Undef
    /\ UnknownChainOrAsset
    /\ res[1].message = "Invalid parameters passed!"

(***************************************************************************)
(* C8.  A request rejected by one of the three rate limiters has no side   *)
(* effects: the limiters are installed ahead of the captcha gate and the   *)
(* handlers, so no pipeline check is evaluated, no sendToken is invoked    *)
(* and no reclaim is issued for it.                                        *)
(***************************************************************************)
RejectedByLimiter == res # <<>> /\ res[1].by \in Limiters

C8_RateLimitRejectionIsInert ==
    /\ RejectedByLimiter =>
          /\ calls = <<>>
          /\ pipelineValidity = NoValidity
          /\ gates = NoGates
          /\ legs = NoLegs
          /\ Len(res) = 1
          /\ pc = "DONE"
    /\ (pc \in {"CAPTCHA", "HANDLER"} \/ Handled
          \/ (res # <<>> /\ res[1].by = "CAPTCHA")) =>
          Limiters \subseteq req.passed

\* The per-address limiter rejected a /sendToken request the other two let through.
C8_Witness ==
    /\ req.path = "/sendToken"
    /\ RejectedByLimiter
    /\ res[1].by = "ADDRESS_RL"
    /\ res[1].status = 429
    /\ req.passed = {"GLOBAL_RL", "RESOURCE_RL"}
    /\ calls = <<>>

(***************************************************************************)
(* C9.  After start-up, for every token whose HOSTID resolves to a chain,  *)
(* every field present on the host chain, unset on the token and not in    *)
(* {COUPON_REQUIRED, MAINNET_BALANCE_CHECK_ENABLED} has the host's value   *)
(* on the token.                                                           *)
(***************************************************************************)
StartupDone == boot.stage \in {"routes", "listening"}

Resolves(i) == ConfiguredChain(staticTokens[i]["HOSTID"])

HostOf(i) ==
    evmchains[CHOOSE j \in 1 .. Len(evmchains) :
                 evmchains[j]["ID"] = staticTokens[i]["HOSTID"]]

C9_Inheritance ==
    StartupDone =>
        \A i \in 1 .. Len(staticTokens) :
            Resolves(i) =>
                \A key \in ConfigKeys \ {"COUPON_REQUIRED",
                                         "MAINNET_BALANCE_CHECK_ENABLED"} :
                    (HostOf(i)[key] # Undef /\ staticTokens[i][key] = Undef) =>
                        /\ erc20tokens[i][key] = HostOf(i)[key]
                        /\ evms[HostOf(i)["ID"].s]
                              .contracts[staticTokens[i]["ID"].s].config[key]
                              = HostOf(i)[key]

\* USDT sets neither NAME nor DRIP_AMOUNT and has KITE's after start-up.
C9_Witness ==
    /\ StartupDone
    /\ staticTokens[2]["NAME"] = Undef
    /\ staticTokens[2]["DRIP_AMOUNT"] = Undef
    /\ erc20tokens[2]["NAME"] = Str("Kite")
    /\ erc20tokens[2]["DRIP_AMOUNT"] = Num(2)

(***************************************************************************)
(* C10.  A token whose HOSTID is missing or resolves to no chain does not  *)
(* crash start-up (the remaining tokens are still registered) and is       *)
(* inert: it is in no chain's contract table, so every POST request naming *)
(* it as erc20 is answered 400 and starts no transfer.                     *)
(***************************************************************************)
InTable(c, i) == staticTokens[i]["ID"].s \in DOMAIN evms[c].contracts

C10_OrphanTokenIsInert ==
    /\ boot.stage # "crashed"
    /\ StartupDone =>
          \A i \in 1 .. Len(staticTokens) :
              IF Resolves(i)
              THEN InTable(staticTokens[i]["HOSTID"].s, i)
              ELSE \A c \in DOMAIN evms : ~InTable(c, i)
    /\ \A i \in 1 .. Len(staticTokens) :
          (~Resolves(i) /\ Handled /\ NamedErc20 = staticTokens[i]["ID"]) =>
              /\ AnsweredByHandler(400)
              /\ ~Called("sendToken")

\* WAVAX names a chain that does not exist; USDT after it is registered on KITE,
\* and a /claimToken request for WAVAX on FUJI with a valid amount and coupon is
\* rejected.
C10_Witness ==
    /\ StartupDone
    /\ staticTokens[1]["HOSTID"] = Str("NOPE")
    /\ InTable("KITE", 2)
    /\ req.path = "/claimToken"
    /\ req.body["erc20"] = Str("WAVAX")
    /\ req.body["chain"] = Str("FUJI")
    /\ res # <<>>
    /\ res[1].message = "Invalid parameters passed!"
    /\ calls = <<>>

(***************************************************************************)
(* C11.  In POST /batchClaimToken, once both transfers have been started   *)
(* no response is sent until both legs have settled (each has delivered    *)
(* its callback result or has failed): in particular, when one leg fails   *)
(* by throwing, no response is sent while the other leg is in flight.      *)
(***************************************************************************)
\* Both transfers of a /batchClaimToken request have been started.
BatchStarted ==
    /\ req.path = "/batchClaimToken"
    /\ Len(CallsOf("sendToken")) = 2

LegSettled(leg) == leg.st \in {"resolved", "rejected"}

C11_BatchWaitsForBoth ==
    (BatchStarted /\ res # <<>>) =>
        LegSettled(legs.native) /\ LegSettled(legs.erc20)

(***************************************************************************)
(* C12.  In POST /batchClaimToken that passes validation both transfer     *)
(* legs are always started, the erc20 leg without waiting for the native   *)
(* leg: the erc20 sendToken is invoked before the native leg's callback    *)
(* is consumed, and also when the native sendToken throws; no leg is       *)
(* cancelled or compensated because of the other leg's outcome.            *)
(***************************************************************************)
\* The handler of /batchClaimToken has run and its three validations passed.
BatchPassedValidation ==
    /\ req.path = "/batchClaimToken"
    /\ Handled
    /\ ~(Len(res) = 1 /\ res[1].message \in {"Invalid amount passed!",
                                              "Invalid coupon passed!",
                                              "Invalid parameters passed!"})

\* What a leg whose sendToken was the given call can be: failed if the call
\* threw, otherwise in flight or called back.
LegFollowsOwnCall(leg, call) ==
    IF call.threw THEN leg.st = "rejected" ELSE leg.st \in {"pending", "resolved"}

C12_LegsIndependent ==
    BatchPassedValidation =>
        /\ Len(calls) = 2
        /\ calls[1] = Call("sendToken", req.body["address"], Undef,
                           req.body["kiteAmount"], Undef, calls[1].threw)
        /\ calls[2] = Call("sendToken", req.body["address"], NamedErc20,
                           req.body["erc20Amount"], Undef, calls[2].threw)
        /\ LegFollowsOwnCall(legs.native, calls[1])
        /\ LegFollowsOwnCall(legs.erc20, calls[2])

\* The native sendToken threw and the request was answered; the erc20 transfer
\* was started all the same and later called back with a success.
C12_Witness ==
    /\ BatchPassedValidation
    /\ calls[1].threw /\ ~calls[2].threw
    /\ pc = "DONE"
    /\ legs.erc20.st = "resolved"
    /\ LegSucceeded(legs.erc20)

(***************************************************************************)
(* C13.  In POST /sendToken, whenever a compensating coupon reclaim is     *)
(* issued for a failed dispatch, the response is sent only after the       *)
(* reclaim has completed: no response is sent while it is pending.         *)
(***************************************************************************)
\* reclaimCouponAmount has been called for the /sendToken request.
ReclaimIssued == req.path = "/sendToken" /\ Called("reclaimCouponAmount")

\* The reclaim that was issued has not settled yet.
ReclaimPending == ReclaimIssued /\ pc = "RECLAIM"

C13_ResponseAfterReclaim ==
    /\ ReclaimPending => res = <<>>
    /\ (ReclaimIssued /\ res # <<>>) =>
          /\ pc = "DONE"
          /\ res = <<Response("HANDLER", cbData.status, cbData.message,
                              cbData.txHash, FALSE, Undef, Undef)>>

\* A coupon-funded transfer failed, the reclaim was issued and completed, and
\* the collaborator's failure was then sent to the caller.
C13_Witness ==
    /\ ReclaimIssued
    /\ pc = "DONE"
    /\ cbData.txHash = Undef
    /\ Len(res) = 1
    /\ res[1].status = cbData.status

(***************************************************************************)
(* C14.  In POST /sendToken, when a coupon-funded dispatch fails (no       *)
(* txHash) the caller receives a response carrying the status and message  *)
(* reported by the chain collaborator whether the compensating reclaim     *)
(* succeeds or fails: a rejection of reclaimCouponAmount does not prevent  *)
(* or alter that response.                                                 *)
(***************************************************************************)
\* The reclaim that was issued has settled, by resolving or by rejecting.
ReclaimSettled == ReclaimIssued /\ pc \in {"DONE", "UNHANDLED"}

C14_ReclaimFailureNotSurfaced ==
    ReclaimSettled =>
        res = <<Response("HANDLER", cbData.status, cbData.message,
                         cbData.txHash, FALSE, Undef, Undef)>>

(***************************************************************************)
(* C15.  In POST /sendToken, checkCouponPipeline is invoked iff the coupon *)
(* gate is enabled, and before any mainnet check.  The coupon gate is      *)
(* enabled iff the coupon subsystem is enabled and COUPON_REQUIRED is true *)
(* on the resolved configuration, the mainnet gate iff                     *)
(* MAINNET_BALANCE_CHECK_ENABLED is true on it; the resolved configuration *)
(* is the token's own when a token is requested and the chain's otherwise  *)
(* (the host chain's two flags are never consulted for a token).           *)
(***************************************************************************)
\* What config.json gives for the asset a request names: the token hosted on
\* the chain when erc20 is non-empty, the chain otherwise.
StaticConfig(chain, erc20) ==
    IF Truthy(erc20)
    THEN staticTokens[CHOOSE i \in 1 .. Len(staticTokens) :
                         /\ staticTokens[i]["ID"] = erc20
                         /\ staticTokens[i]["HOSTID"] = chain]
    ELSE evmchains[CHOOSE j \in 1 .. Len(evmchains) : evmchains[j]["ID"] = chain]

\* A handled /sendToken request that names a configured chain and asset.
SendTokenValidated ==
    /\ req.path = "/sendToken"
    /\ Handled
    /\ ~UnknownChainOrAsset

\* Every coupon check precedes every mainnet check among the calls.
CouponCheckFirst ==
    \A i, j \in 1 .. Len(calls) :
        (calls[i].op = "checkCouponPipeline"
            /\ calls[j].op = "checkMainnetBalancePipeline") => i < j

C15_GateResolution ==
    SendTokenValidated =>
        LET cfg == StaticConfig(req.body["chain"], req.body["erc20"])
        IN /\ gates.coupon <=> CouponGateOn(cfg)
           /\ gates.mainnet <=> MainnetGateOn(cfg)
           /\ Called("checkCouponPipeline") <=> CouponGateOn(cfg)
           /\ Called("checkMainnetBalancePipeline") => MainnetGateOn(cfg)
           /\ Len(CallsOf("checkCouponPipeline")) <= 1
           /\ CouponCheckFirst

\* USDT sets both flags and its host KITE sets neither: with the coupon
\* subsystem enabled a request for USDT without a coupon has the coupon check
\* called and then the mainnet check.
C15_Witness ==
    /\ SendTokenValidated
    /\ req.body["erc20"] = Str("USDT")
    /\ evmchains[1]["COUPON_REQUIRED"] = Undef
    /\ evmchains[1]["MAINNET_BALANCE_CHECK_ENABLED"] = Undef
    /\ Len(calls) >= 2
    /\ calls[1].op = "checkCouponPipeline"
    /\ calls[2].op = "checkMainnetBalancePipeline"

(***************************************************************************)
(* C16.  The exempt fields COUPON_REQUIRED and                             *)
(* MAINNET_BALANCE_CHECK_ENABLED are never inherited: after start-up, for  *)
(* every token, each of the two has exactly the value the token's own      *)
(* static configuration gave it (or is absent if the token did not set     *)
(* it), whatever the host chain's values are.                              *)
(***************************************************************************)
\* The configuration the host's contract table holds for token i.
RegisteredConfig(i) ==
    evms[staticTokens[i]["HOSTID"].s].contracts[staticTokens[i]["ID"].s].config

C16_ExemptNeverInherited ==
    StartupDone =>
        \A i \in 1 .. Len(staticTokens) :
            \A key \in {"COUPON_REQUIRED", "MAINNET_BALANCE_CHECK_ENABLED"} :
                /\ erc20tokens[i][key] = staticTokens[i][key]
                /\ Resolves(i) => RegisteredConfig(i)[key] = staticTokens[i][key]

\* KITE sets both flags to true; USDT, hosted on KITE, leaves COUPON_REQUIRED
\* absent and sets MAINNET_BALANCE_CHECK_ENABLED to false, and has just that
\* after start-up.
C16_Witness ==
    /\ StartupDone
    /\ evmchains[1]["COUPON_REQUIRED"] = Bool(TRUE)
    /\ evmchains[1]["MAINNET_BALANCE_CHECK_ENABLED"] = Bool(TRUE)
    /\ staticTokens[2]["COUPON_REQUIRED"] = Undef
    /\ staticTokens[2]["MAINNET_BALANCE_CHECK_ENABLED"] = Bool(FALSE)
    /\ RegisteredConfig(2)["COUPON_REQUIRED"] = Undef
    /\ RegisteredConfig(2)["MAINNET_BALANCE_CHECK_ENABLED"] = Bool(FALSE)

(***************************************************************************)
(* C17.  The token/chain merge only fills absent fields: populateConfig    *)
(* never overwrites a field that is present on the token configuration;    *)
(* for every field the token sets itself (values such as 0, false or the   *)
(* empty string included) the token's value after start-up is its own      *)
(* configured value, not the host chain's.                                 *)
(***************************************************************************)
C17_OnlyAbsentFilled ==
    StartupDone =>
        \A i \in 1 .. Len(staticTokens) :
            \A key \in ConfigKeys :
                staticTokens[i][key] # Undef =>
                    erc20tokens[i][key] = staticTokens[i][key]

(***************************************************************************)
(* C18.  /claimToken and /batchClaimToken never start a transfer unless    *)
(* the request supplied a coupon value and that value equals the           *)
(* configured secret NEO_COUPON_ID; in every configuration of the process, *)
(* one where the secret is not set included, a request that supplies no    *)
(* coupon is answered 400 and starts no transfer.                          *)
(***************************************************************************)
\* A request to one of the two claim endpoints whose handler has run.
ClaimHandled ==
    /\ req.path \in {"/claimToken", "/batchClaimToken"}
    /\ Handled

C18_CouponSecretRequired ==
    ClaimHandled =>
        /\ Called("sendToken") =>
              /\ req.body["coupon"] # Undef
              /\ req.body["coupon"] = env.NEO_COUPON_ID
        /\ req.body["coupon"] = Undef =>
              /\ AnsweredByHandler(400)
              /\ ~Called("sendToken")

(***************************************************************************)
(* C19.  Every transfer started by /claimToken or /batchClaimToken has a   *)
(* present, strictly positive amount: a /batchClaimToken request in which  *)
(* kiteAmount or erc20Amount is missing, zero or negative is answered 400  *)
(* and starts neither leg.                                                 *)
(***************************************************************************)
Positive(amount) == amount.t = "number" /\ amount.n > 0

C19_PositiveAmounts ==
    ClaimHandled =>
        /\ \A i \in 1 .. Len(calls) :
              calls[i].op = "sendToken" => Positive(calls[i].amount)
        /\ (req.path = "/batchClaimToken"
               /\ (~Positive(req.body["kiteAmount"])
                     \/ ~Positive(req.body["erc20Amount"]))) =>
              /\ AnsweredByHandler(400)
              /\ ~Called("sendToken")

(***************************************************************************)
(* C20.  Every POST request to /sendToken, /claimToken or /batchClaimToken *)
(* receives exactly one response: at most one response is ever sent per    *)
(* request on every path, and, provided every started eligibility check    *)
(* and reclaim completes and every started transfer invokes its callback   *)
(* once, a response is sent.  Stated on finite runs: no request ever has   *)
(* two responses, and a request with nothing left in flight (every check,  *)
(* reclaim and transfer it started has completed) has one.                 *)
(***************************************************************************)
\* The request has been taken up and nothing it started is still in flight:
\* the handler or its callback has run to its end and no transfer is pending.
RequestQuiescent ==
    /\ req.path \in Paths
    /\ pc \in {"DONE", "UNHANDLED"}
    /\ legs.native.st # "pending"
    /\ legs.erc20.st # "pending"

C20_ExactlyOneResponse ==
    /\ Len(res) <= 1
    /\ RequestQuiescent => Len(res) = 1

====
